---- MODULE Spec2Model ----
(***************************************************************************)
(* Model of budget_tracker.py: the budget ledger kept in four SQLite       *)
(* tables (budgets, budget_lines, expenditures, audit_log) and the         *)
(* handlers that mutate it.                                                *)
(*                                                                         *)
(* Money is modelled as integers (units of the smallest currency unit);    *)
(* the REAL columns' rounding is not modelled.  uuid4() keys are modelled  *)
(* as fresh row numbers: the key of a row is its index in its table.       *)
(* Columns that no handler ever reads back in a condition (title,          *)
(* department, vendor, description, timestamps, ...) are left out.         *)
(*                                                                         *)
(* The specifications share the handlers' code:                            *)
(*   Spec      every handler call runs to completion as one step;          *)
(*   SpecConc  callers interleave at the handlers' database statements:    *)
(*             the SELECT (autocommit), the write transaction             *)
(*             (INSERT/UPDATE ... commit) and the _log transaction;        *)
(*   SpecInUse the handlers and the reports (get_variance,                 *)
(*             compliance_check), one call at a time, on a budget that is  *)
(*             anywhere in its life cycle;                                 *)
(*   SpecDrawn the reports on ledgers drawn from a bounded set;            *)
(*   SpecInUseConc callers interleave as in SpecConc on an approved budget *)
(*             with one line, and the reports interleave with them at      *)
(*             their own SELECTs.                                          *)
(***************************************************************************)
EXTENDS Integers, Sequences, FiniteSets

VARIABLES budgets, budget_lines, expenditures, audit_log, ret, report, pc, frame, log_cap

db == <<budgets, budget_lines, expenditures, audit_log>>
vars == <<budgets, budget_lines, expenditures, audit_log, ret, report, pc, frame, log_cap>>

(***************************************************************************)
(* Bounds of the model.                                                    *)
(***************************************************************************)
MaxBudgets == 2
MaxLines == 2
MaxOps == 4
MaxAmount == 2

\* Inputs the callers draw from.  The handlers validate none of them, so
\* negative and zero values are inputs like any other.  The ids a caller may
\* pass are those of the rows that exist and one that does not.
BudgetIds == 1..(Len(budgets) + 1)
LineIds == 1..(Len(budget_lines) + 1)
TotalAmounts == {-1, MaxAmount}
Allocations == {-1, 0, MaxAmount}
Amounts == -1..MaxAmount
Approvers == {"alice", "bob"}
Receipts == {"NULL", "r1"}
Procs == 1..2

\* class BudgetStatus
DRAFT == "draft"
APPROVED == "approved"
ACTIVE == "active"
CLOSED == "closed"

NULL == "NULL"

\* What the last call gave its caller: "ok" for a normal return, otherwise the
\* kind of ValueError it raised, told apart by the raise statement reached:
\* "NotFound" (row missing), "InvalidState" (status test) or
\* "InsufficientFunds" (amount > available).  NoCall before the first call.
NoCall == "none"

\* The dict the last call returned, when that call was a get_variance or a
\* compliance_check that returned normally; NoReport after any other call.
NoReport == [kind |-> "none"]

\* The locals of a caller inside a handler: its arguments (the id it was
\* given, the amount, the approver or receipt) and the budget_id it read.
Frame(op, id, amount, tag, budget_id) ==
    [op |-> op, id |-> id, amount |-> amount, tag |-> tag, budget_id |-> budget_id]

NoFrame == Frame("none", 0, 0, NULL, 0)

(***************************************************************************)
(* Rows and queries.                                                       *)
(***************************************************************************)
\* SELECT ... FROM budgets WHERE budget_id=?  (fetchone() is None when absent)
BudgetExists(budget_id) == budget_id \in DOMAIN budgets

\* SELECT * FROM budget_lines WHERE line_id=?
LineExists(line_id) == line_id \in DOMAIN budget_lines

\* Mutant of Available: the committed funds are forgotten.
AvailableIgnoringCommitted(line) == line.allocated - line.spent

\* available = line["allocated"] - line["spent"] - line["committed"]
Available(line) == line.allocated - line.spent - line.committed

\* Budget(...) as inserted by create_budget: status draft, approver None
NewBudget(total_amount) ==
    [total_amount |-> total_amount, status |-> DRAFT, approved_by |-> NULL]

\* BudgetLine(...) as inserted by add_budget_line: spent 0.0, committed 0.0
NewLine(budget_id, allocated) ==
    [budget_id |-> budget_id, allocated |-> allocated, spent |-> 0, committed |-> 0]

\* Mutant of NewExpenditure: the record keeps the size of the amount, not its sign.
NewExpenditureUnsigned(line_id, amount, receipt_ref) ==
    [budget_line_id |-> line_id, amount |-> IF amount < 0 THEN -amount ELSE amount,
     receipt_ref |-> receipt_ref]

\* Expenditure(...) as inserted by record_expenditure
NewExpenditure(line_id, amount, receipt_ref) ==
    [budget_line_id |-> line_id, amount |-> amount, receipt_ref |-> receipt_ref]

\* _log: one INSERT INTO audit_log, committed on its own connection
LogEntry(budget_id, action) == [budget_id |-> budget_id, action |-> action]

AppendLog(budget_id, action) == Append(audit_log, LogEntry(budget_id, action))

\* The model stops taking new successful calls once the audit log, with the
\* entries of the calls under way, is log_cap long.  log_cap is fixed by the
\* initial state and no step changes it.
Room == Len(audit_log) + Cardinality({p \in Procs : pc[p] \in {"write", "log"}}) < log_cap

(***************************************************************************)
(* The write transactions of the handlers (everything between the first    *)
(* INSERT/UPDATE and conn.commit()), as state transformers.                *)
(***************************************************************************)
InsertBudget(total_amount) == Append(budgets, NewBudget(total_amount))

InsertLine(budget_id, allocated) == Append(budget_lines, NewLine(budget_id, allocated))

\* UPDATE budgets SET status=?, approved_by=?, ... WHERE budget_id=?
SetApproved(budget_id, approved_by) ==
    [budgets EXCEPT ![budget_id].status = APPROVED, ![budget_id].approved_by = approved_by]

\* UPDATE budgets SET status=?, updated_at=? WHERE budget_id=?
SetStatus(budget_id, status) == [budgets EXCEPT ![budget_id].status = status]

\* Mutant of AddSpent: recording an expenditure also releases as much of the
\* line's commitment.
AddSpentReleasingCommitted(line_id, amount) ==
    [budget_lines EXCEPT ![line_id].spent = @ + amount, ![line_id].committed = @ - amount]

\* UPDATE budget_lines SET spent=spent+? WHERE line_id=?
AddSpent(line_id, amount) == [budget_lines EXCEPT ![line_id].spent = @ + amount]

\* UPDATE budget_lines SET committed=committed+? WHERE line_id=?
AddCommitted(line_id, amount) == [budget_lines EXCEPT ![line_id].committed = @ + amount]

InsertExpenditure(line_id, amount, receipt_ref) ==
    Append(expenditures, NewExpenditure(line_id, amount, receipt_ref))

(***************************************************************************)
(* Preconditions the handlers test on the row they selected.               *)
(***************************************************************************)
\* Mutant of LineAddable: only closed budgets are refused.
LineAddableUnlessClosed(status) == status # CLOSED

\* row["status"] not in (DRAFT, APPROVED)  raises
LineAddable(status) == status \in {DRAFT, APPROVED}

\* row["status"] != DRAFT  raises
Approvable(status) == status = DRAFT

\* Mutant of Activatable: drafts may be activated too.
ActivatableFromDraft(status) == status \in {DRAFT, APPROVED}

\* row["status"] != APPROVED  raises
Activatable(status) == status = APPROVED

\* Mutant of Closable: everything but a draft may be closed.
ClosableUnlessDraft(status) == status # DRAFT

\* row["status"] != ACTIVE  raises
Closable(status) == status = ACTIVE

\* Mutant of Affordable: funds are released only on lines of an active budget.
AffordableWhileActive(amount, line) ==
    budgets[line.budget_id].status = ACTIVE /\ ~(amount > Available(line))

\* amount > available  raises
Affordable(amount, line) == ~(amount > Available(line))

(***************************************************************************)
(* Spec: each handler call as one step.                                    *)
(***************************************************************************)
\* Mutant of Fail: the refused call is entered in the audit log.
FailAudited(op, outcome) ==
    /\ ret' = outcome
    /\ report' = NoReport
    /\ audit_log' = AppendLog(0, op)
    /\ UNCHANGED <<budgets, budget_lines, expenditures, pc, frame, log_cap>>

\* raise ValueError: the call wrote nothing
Fail(op, outcome) == ret' = outcome /\ report' = NoReport /\ UNCHANGED <<db, pc, frame, log_cap>>

create_budget(total_amount) ==
    /\ Len(budgets) < MaxBudgets
    /\ Room
    /\ budgets' = InsertBudget(total_amount)
    /\ audit_log' = AppendLog(Len(budgets) + 1, "CREATE_BUDGET")
    /\ ret' = "ok"
    /\ report' = NoReport
    /\ UNCHANGED <<budget_lines, expenditures, pc, frame, log_cap>>

add_budget_line(budget_id, allocated) ==
    IF ~BudgetExists(budget_id)
    THEN Fail("add_budget_line", "NotFound")
    ELSE IF ~LineAddable(budgets[budget_id].status)
    THEN Fail("add_budget_line", "InvalidState")
    ELSE /\ Len(budget_lines) < MaxLines
         /\ Room
         /\ budget_lines' = InsertLine(budget_id, allocated)
         /\ audit_log' = AppendLog(budget_id, "ADD_LINE")
         /\ ret' = "ok"
         /\ report' = NoReport
         /\ UNCHANGED <<budgets, expenditures, pc, frame, log_cap>>

approve_budget(budget_id, approved_by) ==
    IF ~BudgetExists(budget_id)
    THEN Fail("approve_budget", "NotFound")
    ELSE IF ~Approvable(budgets[budget_id].status)
    THEN Fail("approve_budget", "InvalidState")
    ELSE /\ Room
         /\ budgets' = SetApproved(budget_id, approved_by)
         /\ audit_log' = AppendLog(budget_id, "APPROVE_BUDGET")
         /\ ret' = "ok"
         /\ report' = NoReport
         /\ UNCHANGED <<budget_lines, expenditures, pc, frame, log_cap>>

activate_budget(budget_id) ==
    IF ~BudgetExists(budget_id)
    THEN Fail("activate_budget", "NotFound")
    ELSE IF ~Activatable(budgets[budget_id].status)
    THEN Fail("activate_budget", "InvalidState")
    ELSE /\ Room
         /\ budgets' = SetStatus(budget_id, ACTIVE)
         /\ audit_log' = AppendLog(budget_id, "ACTIVATE_BUDGET")
         /\ ret' = "ok"
         /\ report' = NoReport
         /\ UNCHANGED <<budget_lines, expenditures, pc, frame, log_cap>>

close_budget(budget_id) ==
    IF ~BudgetExists(budget_id)
    THEN Fail("close_budget", "NotFound")
    ELSE IF ~Closable(budgets[budget_id].status)
    THEN Fail("close_budget", "InvalidState")
    ELSE /\ Room
         /\ budgets' = SetStatus(budget_id, CLOSED)
         /\ audit_log' = AppendLog(budget_id, "CLOSE_BUDGET")
         /\ ret' = "ok"
         /\ report' = NoReport
         /\ UNCHANGED <<budget_lines, expenditures, pc, frame, log_cap>>

record_expenditure(line_id, amount, receipt_ref) ==
    IF ~LineExists(line_id)
    THEN Fail("record_expenditure", "NotFound")
    ELSE IF ~Affordable(amount, budget_lines[line_id])
    THEN Fail("record_expenditure", "InsufficientFunds")
    ELSE /\ Room
         /\ expenditures' = InsertExpenditure(line_id, amount, receipt_ref)
         /\ budget_lines' = AddSpent(line_id, amount)
         /\ audit_log' = AppendLog(budget_lines[line_id].budget_id, "RECORD_EXPENDITURE")
         /\ ret' = "ok"
         /\ report' = NoReport
         /\ UNCHANGED <<budgets, pc, frame, log_cap>>

commit_funds(line_id, amount) ==
    IF ~LineExists(line_id)
    THEN Fail("commit_funds", "NotFound")
    ELSE IF ~Affordable(amount, budget_lines[line_id])
    THEN Fail("commit_funds", "InsufficientFunds")
    ELSE /\ Room
         /\ budget_lines' = AddCommitted(line_id, amount)
         /\ audit_log' = AppendLog(budget_lines[line_id].budget_id, "COMMIT_FUNDS")
         /\ ret' = "ok"
         /\ report' = NoReport
         /\ UNCHANGED <<budgets, expenditures, pc, frame, log_cap>>

\* The state after init_db(): four empty tables, no call made, no caller inside
\* a handler.
Init ==
    /\ budgets = <<>>
    /\ budget_lines = <<>>
    /\ expenditures = <<>>
    /\ audit_log = <<>>
    /\ ret = NoCall
    /\ report = NoReport
    /\ pc = [p \in Procs |-> "idle"]
    /\ frame = [p \in Procs |-> NoFrame]
    /\ log_cap = MaxOps

Next ==
    \/ \E t \in TotalAmounts : create_budget(t)
    \/ \E b \in BudgetIds, a \in Allocations : add_budget_line(b, a)
    \/ \E b \in BudgetIds, who \in Approvers : approve_budget(b, who)
    \/ \E b \in BudgetIds : activate_budget(b)
    \/ \E b \in BudgetIds : close_budget(b)
    \/ \E l \in LineIds, a \in Amounts, r \in Receipts : record_expenditure(l, a, r)
    \/ \E l \in LineIds, a \in Amounts : commit_funds(l, a)

Spec == Init /\ [][Next]_vars

(***************************************************************************)
(* SpecConc: callers interleave at the database statements.  Every handler *)
(* opens its own connection; its SELECT runs in autocommit mode, the write *)
(* transaction starts at the first INSERT/UPDATE and ends at              *)
(* conn.commit(), and _log then writes on another connection.  SQLite      *)
(* serialises the write transactions, so each is one step; nothing keeps   *)
(* another caller from committing between a handler's SELECT and its       *)
(* write, or between its write and its _log.                               *)
(*   pc[p] = "idle"   p is outside every handler                           *)
(*   pc[p] = "write"  p has selected and checked, and is about to write    *)
(*   pc[p] = "log"    p has committed its write and is about to call _log  *)
(* frame[p] holds the handler's arguments and the row values it read.      *)
(* ret is the outcome of the last call of Spec; the callers of SpecConc    *)
(* keep their outcomes to themselves, and what they did is read off the    *)
(* tables.                                                                 *)
(***************************************************************************)
\* A caller that may enter a handler.  Idle callers hold no state and are
\* interchangeable, so the next call is given to the first idle one.
Idle(p) == pc[p] = "idle" /\ \A q \in Procs : pc[q] = "idle" => p <= q

\* raise ValueError after conn.close(): nothing was written and the caller
\* is outside the handler again
Raise(p, op, outcome) ==
    /\ Idle(p)
    /\ report' = NoReport
    /\ UNCHANGED <<db, pc, frame, ret, log_cap>>

\* the checks passed: the caller goes on to its write transaction
Proceed(p, f) ==
    /\ Idle(p)
    /\ Room
    /\ pc' = [pc EXCEPT ![p] = "write"]
    /\ frame' = [frame EXCEPT ![p] = f]
    /\ report' = NoReport
    /\ UNCHANGED <<db, ret, log_cap>>

\* conn.commit(); conn.close(): the caller goes on to _log
Committed(p, budget_id) ==
    /\ pc' = [pc EXCEPT ![p] = "log"]
    /\ frame' = [frame EXCEPT ![p].budget_id = budget_id]
    /\ report' = NoReport
    /\ UNCHANGED <<audit_log, ret, log_cap>>

Writing(p, op) == pc[p] = "write" /\ frame[p].op = op

LinesInFlight == Cardinality({p \in Procs : Writing(p, "add_budget_line")})

\* create_budget selects nothing: its first statement is its write
create_budget_write(p, total_amount) ==
    /\ Idle(p)
    /\ Len(budgets) < MaxBudgets
    /\ Room
    /\ budgets' = InsertBudget(total_amount)
    /\ pc' = [pc EXCEPT ![p] = "log"]
    /\ frame' = [frame EXCEPT ![p] =
                   Frame("create_budget", Len(budgets) + 1, total_amount, NULL, Len(budgets) + 1)]
    /\ report' = NoReport
    /\ UNCHANGED <<budget_lines, expenditures, audit_log, ret, log_cap>>

add_budget_line_select(p, budget_id, allocated) ==
    IF ~BudgetExists(budget_id)
    THEN Raise(p, "add_budget_line", "NotFound")
    ELSE IF ~LineAddable(budgets[budget_id].status)
    THEN Raise(p, "add_budget_line", "InvalidState")
    ELSE /\ Len(budget_lines) + LinesInFlight < MaxLines
         /\ Proceed(p, Frame("add_budget_line", budget_id, allocated, NULL, budget_id))

add_budget_line_write(p) ==
    /\ Writing(p, "add_budget_line")
    /\ budget_lines' = InsertLine(frame[p].id, frame[p].amount)
    /\ Committed(p, frame[p].id)
    /\ UNCHANGED <<budgets, expenditures>>

approve_budget_select(p, budget_id, approved_by) ==
    IF ~BudgetExists(budget_id)
    THEN Raise(p, "approve_budget", "NotFound")
    ELSE IF ~Approvable(budgets[budget_id].status)
    THEN Raise(p, "approve_budget", "InvalidState")
    ELSE Proceed(p, Frame("approve_budget", budget_id, 0, approved_by, budget_id))

approve_budget_write(p) ==
    /\ Writing(p, "approve_budget")
    /\ budgets' = SetApproved(frame[p].id, frame[p].tag)
    /\ Committed(p, frame[p].id)
    /\ UNCHANGED <<budget_lines, expenditures>>

activate_budget_select(p, budget_id) ==
    IF ~BudgetExists(budget_id)
    THEN Raise(p, "activate_budget", "NotFound")
    ELSE IF ~Activatable(budgets[budget_id].status)
    THEN Raise(p, "activate_budget", "InvalidState")
    ELSE Proceed(p, Frame("activate_budget", budget_id, 0, NULL, budget_id))

activate_budget_write(p) ==
    /\ Writing(p, "activate_budget")
    /\ budgets' = SetStatus(frame[p].id, ACTIVE)
    /\ Committed(p, frame[p].id)
    /\ UNCHANGED <<budget_lines, expenditures>>

close_budget_select(p, budget_id) ==
    IF ~BudgetExists(budget_id)
    THEN Raise(p, "close_budget", "NotFound")
    ELSE IF ~Closable(budgets[budget_id].status)
    THEN Raise(p, "close_budget", "InvalidState")
    ELSE Proceed(p, Frame("close_budget", budget_id, 0, NULL, budget_id))

close_budget_write(p) ==
    /\ Writing(p, "close_budget")
    /\ budgets' = SetStatus(frame[p].id, CLOSED)
    /\ Committed(p, frame[p].id)
    /\ UNCHANGED <<budget_lines, expenditures>>

\* line = SELECT ...; available and the test use the selected row, and _log
\* later uses line["budget_id"] of that same row
record_expenditure_select(p, line_id, amount, receipt_ref) ==
    IF ~LineExists(line_id)
    THEN Raise(p, "record_expenditure", "NotFound")
    ELSE IF ~Affordable(amount, budget_lines[line_id])
    THEN Raise(p, "record_expenditure", "InsufficientFunds")
    ELSE Proceed(p, Frame("record_expenditure", line_id, amount, receipt_ref,
                          budget_lines[line_id].budget_id))

\* INSERT INTO expenditures; UPDATE budget_lines SET spent=spent+?: the
\* increment is applied to the row as it is now, not as it was selected
record_expenditure_write(p) ==
    /\ Writing(p, "record_expenditure")
    /\ expenditures' = InsertExpenditure(frame[p].id, frame[p].amount, frame[p].tag)
    /\ budget_lines' = AddSpent(frame[p].id, frame[p].amount)
    /\ Committed(p, frame[p].budget_id)
    /\ UNCHANGED budgets

commit_funds_select(p, line_id, amount) ==
    IF ~LineExists(line_id)
    THEN Raise(p, "commit_funds", "NotFound")
    ELSE IF ~Affordable(amount, budget_lines[line_id])
    THEN Raise(p, "commit_funds", "InsufficientFunds")
    ELSE Proceed(p, Frame("commit_funds", line_id, amount, NULL,
                          budget_lines[line_id].budget_id))

commit_funds_write(p) ==
    /\ Writing(p, "commit_funds")
    /\ budget_lines' = AddCommitted(frame[p].id, frame[p].amount)
    /\ Committed(p, frame[p].budget_id)
    /\ UNCHANGED <<budgets, expenditures>>

\* The audit action each handler passes to _log
ActionOf(op) ==
    CASE op = "create_budget" -> "CREATE_BUDGET"
      [] op = "add_budget_line" -> "ADD_LINE"
      [] op = "approve_budget" -> "APPROVE_BUDGET"
      [] op = "activate_budget" -> "ACTIVATE_BUDGET"
      [] op = "close_budget" -> "CLOSE_BUDGET"
      [] op = "record_expenditure" -> "RECORD_EXPENDITURE"
      [] op = "commit_funds" -> "COMMIT_FUNDS"

\* _log(...) and the handler's return
log_return(p) ==
    /\ pc[p] = "log"
    /\ audit_log' = AppendLog(frame[p].budget_id, ActionOf(frame[p].op))
    /\ pc' = [pc EXCEPT ![p] = "idle"]
    /\ frame' = [frame EXCEPT ![p] = NoFrame]
    /\ report' = NoReport
    /\ UNCHANGED <<budgets, budget_lines, expenditures, ret, log_cap>>

NextConc ==
    \/ \E p \in Procs, t \in TotalAmounts : create_budget_write(p, t)
    \/ \E p \in Procs, b \in BudgetIds, a \in Allocations : add_budget_line_select(p, b, a)
    \/ \E p \in Procs : add_budget_line_write(p)
    \/ \E p \in Procs, b \in BudgetIds, who \in Approvers : approve_budget_select(p, b, who)
    \/ \E p \in Procs : approve_budget_write(p)
    \/ \E p \in Procs, b \in BudgetIds : activate_budget_select(p, b)
    \/ \E p \in Procs : activate_budget_write(p)
    \/ \E p \in Procs, b \in BudgetIds : close_budget_select(p, b)
    \/ \E p \in Procs : close_budget_write(p)
    \/ \E p \in Procs, l \in LineIds, a \in Amounts, r \in Receipts :
          record_expenditure_select(p, l, a, r)
    \/ \E p \in Procs : record_expenditure_write(p)
    \/ \E p \in Procs, l \in LineIds, a \in Amounts : commit_funds_select(p, l, a)
    \/ \E p \in Procs : commit_funds_write(p)
    \/ \E p \in Procs : log_return(p)

SpecConc == Init /\ [][NextConc]_vars

(***************************************************************************)
(* The reports: get_variance and compliance_check read the tables and      *)
(* return a dict.  Percentages are kept in hundredths of a percent, the     *)
(* precision round(x, 2) leaves.                                           *)
(***************************************************************************)
\* "warning" if pct > 80
WarnPct == 80

\* elif ln["utilization_pct"] > 90
HighPct == 90

\* A whole percentage in the unit the report's percentages are kept in.
Pct(n) == n * 100

\* round(num / den * 100, 2) for den > 0: to the nearest hundredth, a tie to
\* the even one.
Round2Pct(num, den) ==
    LET n == num * 10000
        q == n \div den
        r == n - q * den
    IN  IF 2 * r > den THEN q + 1
        ELSE IF 2 * r = den THEN q + (q % 2)
        ELSE q

\* round(spent / allocated * 100, 2) if allocated > 0 else 0.0
UtilizationPct(spent, allocated) ==
    IF allocated > 0 THEN Round2Pct(spent, allocated) ELSE 0

\* Mutant of LineStatus: the utilization is tested before the overdraw.
LineStatusByUtilizationFirst(avail, pct) ==
    IF pct > Pct(WarnPct) THEN "warning"
    ELSE IF avail < 0 THEN "over_budget"
    ELSE "ok"

\* "over_budget" if avail < 0 else ("warning" if pct > 80 else "ok")
LineStatus(avail, pct) ==
    IF avail < 0 THEN "over_budget"
    ELSE IF pct > Pct(WarnPct) THEN "warning"
    ELSE "ok"

\* Mutant of RowsOf: the WHERE clause is dropped.
RowsOfAnyBudget(budget_id) == [l \in 1..Len(budget_lines) |-> l]

\* SELECT * FROM budget_lines WHERE budget_id=? ORDER BY category, subcategory:
\* the ids of the budget's lines.  The categories are not modelled; the rows
\* come in the order of their ids.
RowsOf(budget_id) ==
    SelectSeq([l \in 1..Len(budget_lines) |-> l],
              LAMBDA l : budget_lines[l].budget_id = budget_id)

RECURSIVE SumSeq(_)
\* sum(...) over a list
SumSeq(s) == IF s = <<>> THEN 0 ELSE Head(s) + SumSeq(Tail(s))

\* one entry of line_reports
VarianceLine(l) ==
    LET ln == budget_lines[l]
        avail == ln.allocated - ln.spent - ln.committed
        pct == UtilizationPct(ln.spent, ln.allocated)
    IN  [line_id |-> l, allocated |-> ln.allocated, spent |-> ln.spent,
         committed |-> ln.committed, available |-> avail,
         utilization_pct |-> pct, status |-> LineStatus(avail, pct)]

\* the dict get_variance returns, from the budget row it selected and the
\* lines as they are when it selects them
VarianceOf(budget_id, budget) ==
    LET rows == RowsOf(budget_id)
        total_allocated == SumSeq([i \in DOMAIN rows |-> budget_lines[rows[i]].allocated])
        total_spent == SumSeq([i \in DOMAIN rows |-> budget_lines[rows[i]].spent])
        total_committed == SumSeq([i \in DOMAIN rows |-> budget_lines[rows[i]].committed])
    IN  [kind |-> "variance",
         budget_id |-> budget_id,
         status |-> budget.status,
         total_budget |-> budget.total_amount,
         total_allocated |-> total_allocated,
         total_spent |-> total_spent,
         total_committed |-> total_committed,
         total_available |-> total_allocated - total_spent - total_committed,
         overall_utilization_pct |-> UtilizationPct(total_spent, total_allocated),
         unallocated |-> budget.total_amount - total_allocated,
         lines |-> [i \in DOMAIN rows |-> VarianceLine(rows[i])]]

\* budget = SELECT * FROM budgets WHERE budget_id=?, then the lines
GetVariance(budget_id) == VarianceOf(budget_id, budgets[budget_id])

\* One string of the issues or warnings list: the check that produced it, the
\* line it names (0 when it names none) and the figure it quotes.
Note(kind, line_id, amount) == [kind |-> kind, line_id |-> line_id, amount |-> amount]

Abs(n) == IF n < 0 THEN -n ELSE n

\* Mutant of AllocationIssues: a budget allocated to the last unit is flagged.
AllocationIssuesWhenFull(variance) ==
    IF variance.unallocated <= 0
    THEN <<Note("OVER-ALLOCATED", 0, Abs(variance.unallocated))>>
    ELSE <<>>

\* if variance["unallocated"] < 0: issues.append("OVER-ALLOCATED ...")
AllocationIssues(variance) ==
    IF variance.unallocated < 0
    THEN <<Note("OVER-ALLOCATED", 0, Abs(variance.unallocated))>>
    ELSE <<>>

RECURSIVE LineIssues(_)
\* for line in variance["lines"]: if line["available"] < 0: issues.append(...)
LineIssues(lines) ==
    IF lines = <<>> THEN <<>>
    ELSE LET line == Head(lines)
         IN  (IF line.available < 0
              THEN <<Note("OVER-SPENT", line.line_id, Abs(line.available))>>
              ELSE <<>>) \o LineIssues(Tail(lines))

RECURSIVE LineWarnings(_)
\* ... elif line["utilization_pct"] > 90: warnings.append(...)
LineWarnings(lines) ==
    IF lines = <<>> THEN <<>>
    ELSE LET line == Head(lines)
         IN  (IF line.available < 0 THEN <<>>
              ELSE IF line.utilization_pct > Pct(HighPct)
              THEN <<Note("HIGH UTILIZATION", line.line_id, line.utilization_pct)>>
              ELSE <<>>) \o LineWarnings(Tail(lines))

\* Mutant of ExpsWithoutReceipt: the JOIN and the budget_id test are dropped.
ExpsWithoutReceiptAnywhere(budget_id) ==
    Cardinality({e \in DOMAIN expenditures : expenditures[e].receipt_ref = NULL})

\* SELECT COUNT(*) FROM expenditures e JOIN budget_lines bl
\*   ON e.budget_line_id = bl.line_id WHERE bl.budget_id=? AND e.receipt_ref IS NULL
ExpsWithoutReceipt(budget_id) ==
    Cardinality({e \in DOMAIN expenditures :
                    /\ expenditures[e].budget_line_id \in DOMAIN budget_lines
                    /\ budget_lines[expenditures[e].budget_line_id].budget_id = budget_id
                    /\ expenditures[e].receipt_ref = NULL})

\* if exps_without_receipt > 0: warnings.append(...)
ReceiptWarnings(exps_without_receipt) ==
    IF exps_without_receipt > 0
    THEN <<Note("MISSING RECEIPTS", 0, exps_without_receipt)>>
    ELSE <<>>

\* the dict compliance_check returns, from the variance it got and the count
\* it selected afterwards
ComplianceOf(variance, exps_without_receipt) ==
    LET issues == AllocationIssues(variance) \o LineIssues(variance.lines)
        warnings == LineWarnings(variance.lines) \o ReceiptWarnings(exps_without_receipt)
    IN  [kind |-> "compliance",
         budget_id |-> variance.budget_id,
         compliant |-> Len(issues) = 0,
         issues |-> issues,
         warnings |-> warnings]

\* compliance_check with no other caller's write between its statements
ComplianceCheck(budget_id) ==
    ComplianceOf(GetVariance(budget_id), ExpsWithoutReceipt(budget_id))

\* A report call runs to completion as one step and writes nothing.
get_variance(budget_id) ==
    IF ~BudgetExists(budget_id)
    THEN Fail("get_variance", "NotFound")
    ELSE /\ ret' = "ok"
         /\ report' = GetVariance(budget_id)
         /\ UNCHANGED <<db, pc, frame, log_cap>>

compliance_check(budget_id) ==
    IF ~BudgetExists(budget_id)
    THEN Fail("compliance_check", "NotFound")
    ELSE /\ ret' = "ok"
         /\ report' = ComplianceCheck(budget_id)
         /\ UNCHANGED <<db, pc, frame, log_cap>>

(***************************************************************************)
(* Two specifications start from a ledger that is already in use, one the  *)
(* handlers can have produced, with the audit log of the calls that        *)
(* produced it:                                                            *)
(*   SpecInUse  the handlers and the reports, called one at a time on one  *)
(*              budget anywhere in its life cycle with one line, on which  *)
(*              funds may have been committed; the model admits Depth more *)
(*              successful calls;                                          *)
(*   SpecDrawn  the reports alone, on one or two draft budgets with up to  *)
(*              two lines and two expenditures, in amounts that put the    *)
(*              lines' utilization on both sides of the reports'           *)
(*              thresholds.                                                *)
(* A drawn line may be overdrawn (spent + committed > allocated): the      *)
(* interleaving of SpecConc produces such lines.                           *)
(***************************************************************************)
Depth == 1

\* the sequences over S whose length is in lens
SeqsOf(S, lens) == UNION {[1..k -> S] : k \in lens}

RECURSIVE Flatten(_)
Flatten(ss) == IF ss = <<>> THEN <<>> ELSE Head(ss) \o Flatten(Tail(ss))

\* The audit entries of the life cycle steps a budget in this status has taken.
Lifecycle(b) ==
    (IF budgets[b].status # DRAFT THEN <<LogEntry(b, "APPROVE_BUDGET")>> ELSE <<>>)
    \o (IF budgets[b].status \in {ACTIVE, CLOSED}
        THEN <<LogEntry(b, "ACTIVATE_BUDGET")>> ELSE <<>>)
    \o (IF budgets[b].status = CLOSED THEN <<LogEntry(b, "CLOSE_BUDGET")>> ELSE <<>>)

\* The audit log of one run of calls that leaves the tables as they are: the
\* budgets are created, the lines added, the expenditures recorded, the
\* commitments made, and then each budget is taken to its status.
History ==
    [b \in DOMAIN budgets |-> LogEntry(b, "CREATE_BUDGET")]
    \o [l \in DOMAIN budget_lines |-> LogEntry(budget_lines[l].budget_id, "ADD_LINE")]
    \o [e \in DOMAIN expenditures |->
           LogEntry(budget_lines[expenditures[e].budget_line_id].budget_id,
                    "RECORD_EXPENDITURE")]
    \o Flatten([l \in DOMAIN budget_lines |->
                   IF budget_lines[l].committed # 0
                   THEN <<LogEntry(budget_lines[l].budget_id, "COMMIT_FUNDS")>>
                   ELSE <<>>])
    \o Flatten([b \in DOMAIN budgets |-> Lifecycle(b)])

\* A budget row in a given status: approve_budget has set the approver of
\* every budget that is past draft.
BudgetIn(total_amount, status, approved_by) ==
    [total_amount |-> total_amount, status |-> status,
     approved_by |-> IF status = DRAFT THEN NULL ELSE approved_by]

LedgerInUse ==
    /\ budgets \in {<<BudgetIn(t, s, "alice")>> :
                       t \in TotalAmounts, s \in {DRAFT, APPROVED, ACTIVE, CLOSED}}
    /\ budget_lines \in {<<[NewLine(1, k[1]) EXCEPT !.committed = k[2]]>> :
                            k \in {k \in Allocations \X (0..1) : k[2] <= k[1]}}
    /\ expenditures = <<>>
    /\ audit_log = History
    /\ ret = NoCall
    /\ report = NoReport
    /\ pc = [p \in Procs |-> "idle"]
    /\ frame = [p \in Procs |-> NoFrame]

InitInUse == LedgerInUse /\ log_cap = Len(audit_log) + Depth

\* The drawn ledgers: totals, allocations and amounts in units of a tenth of
\* the smaller total.
DrawnBudgets == {<<NewBudget(10)>>, <<NewBudget(20)>>, <<NewBudget(10), NewBudget(10)>>}
DrawnLines == {<<-1, 0>>, <<0, 0>>, <<9, 0>>, <<10, 0>>, <<10, 2>>}
DrawnAmounts == {1, 8}
DrawnLens == 0..2

\* the spent column a line has after the expenditures es
SpentOf(es, l) ==
    SumSeq([i \in DOMAIN es |-> IF es[i].budget_line_id = l THEN es[i].amount ELSE 0])

InitDrawn ==
    /\ budgets \in DrawnBudgets
    /\ \E ls \in SeqsOf({[NewLine(b, k[1]) EXCEPT !.committed = k[2]] :
                            b \in DOMAIN budgets, k \in DrawnLines}, DrawnLens) :
          /\ ls # <<>> => ls[1].budget_id = 1
          /\ \E es \in SeqsOf({NewExpenditure(l, a, r) :
                                  l \in DOMAIN ls, a \in DrawnAmounts, r \in Receipts},
                              DrawnLens) :
                /\ \A i \in DOMAIN es : ls[es[i].budget_line_id].allocated > 0
                /\ expenditures = es
                /\ budget_lines = [l \in DOMAIN ls |-> [ls[l] EXCEPT !.spent = SpentOf(es, l)]]
    /\ audit_log = History
    /\ log_cap = Len(audit_log)
    /\ ret = NoCall
    /\ report = NoReport
    /\ pc = [p \in Procs |-> "idle"]
    /\ frame = [p \in Procs |-> NoFrame]

NextDrawn ==
    \/ \E b \in BudgetIds : get_variance(b)
    \/ \E b \in BudgetIds : compliance_check(b)

NextInUse == Next \/ NextDrawn

SpecInUse == InitInUse /\ [][NextInUse]_vars

SpecDrawn == InitDrawn /\ [][NextDrawn]_vars

(***************************************************************************)
(* SpecInUseConc: the callers of SpecConc on a ledger in use, with the      *)
(* reports among their calls; each caller's worth of successful writes is   *)
(* admitted.  A report only selects: get_variance selects the budget row    *)
(* and then the lines on one connection in autocommit mode, and             *)
(* compliance_check then selects the receipt count on another connection.   *)
(* No transaction spans these statements, so another caller's write         *)
(* transaction can commit between any two of them.                         *)
(*   pc[p] = "lines"  p has selected the budget row and is about to select *)
(*                    the lines                                            *)
(*   pc[p] = "count"  p has its variance and is about to select the count  *)
(***************************************************************************)
\* The locals of a caller inside a report: the budget row it selected and,
\* in compliance_check, the variance it got.
ReadFrame(op, id, budget, variance) ==
    [op |-> op, id |-> id, amount |-> 0, tag |-> NULL, budget_id |-> id,
     budget |-> budget, variance |-> variance]

\* budget = SELECT * FROM budgets WHERE budget_id=?; if not budget: raise
get_variance_select(p, budget_id) ==
    IF ~BudgetExists(budget_id)
    THEN Raise(p, "get_variance", "NotFound")
    ELSE /\ Idle(p)
         /\ pc' = [pc EXCEPT ![p] = "lines"]
         /\ frame' = [frame EXCEPT ![p] =
                        ReadFrame("get_variance", budget_id, budgets[budget_id], NoReport)]
         /\ UNCHANGED <<db, ret, report, log_cap>>

\* variance = get_variance(budget_id): the same first statement
compliance_check_select(p, budget_id) ==
    IF ~BudgetExists(budget_id)
    THEN Raise(p, "compliance_check", "NotFound")
    ELSE /\ Idle(p)
         /\ pc' = [pc EXCEPT ![p] = "lines"]
         /\ frame' = [frame EXCEPT ![p] =
                        ReadFrame("compliance_check", budget_id, budgets[budget_id], NoReport)]
         /\ UNCHANGED <<db, ret, report, log_cap>>

\* lines = SELECT * FROM budget_lines WHERE budget_id=? ...; the dict is built
\* from the row selected before and these lines.  get_variance returns it;
\* compliance_check goes on with it.
get_variance_lines(p) ==
    /\ pc[p] = "lines"
    /\ LET variance == VarianceOf(frame[p].id, frame[p].budget)
       IN  IF frame[p].op = "get_variance"
           THEN /\ report' = variance
                /\ pc' = [pc EXCEPT ![p] = "idle"]
                /\ frame' = [frame EXCEPT ![p] = NoFrame]
           ELSE /\ pc' = [pc EXCEPT ![p] = "count"]
                /\ frame' = [frame EXCEPT ![p].variance = variance]
                /\ UNCHANGED report
    /\ UNCHANGED <<db, ret, log_cap>>

\* SELECT COUNT(*) ... on a new connection, and the return of the dict
compliance_check_count(p) ==
    /\ pc[p] = "count"
    /\ report' = ComplianceOf(frame[p].variance, ExpsWithoutReceipt(frame[p].id))
    /\ pc' = [pc EXCEPT ![p] = "idle"]
    /\ frame' = [frame EXCEPT ![p] = NoFrame]
    /\ UNCHANGED <<db, ret, log_cap>>

InitInUseConc ==
    /\ LedgerInUse
    /\ budgets[1].status = APPROVED
    /\ budgets[1].total_amount = MaxAmount
    /\ log_cap = Len(audit_log) + Cardinality(Procs)

NextInUseConc ==
    \/ NextConc
    \/ \E p \in Procs, b \in BudgetIds : get_variance_select(p, b)
    \/ \E p \in Procs, b \in BudgetIds : compliance_check_select(p, b)
    \/ \E p \in Procs : get_variance_lines(p)
    \/ \E p \in Procs : compliance_check_count(p)

SpecInUseConc == InitInUseConc /\ [][NextInUseConc]_vars

(***************************************************************************)
(* Properties.                                                             *)
(***************************************************************************)
Sum(line) == line.spent + line.committed

\* C1: in every state the handlers, run one at a time, can reach, every
\* budget line has spent + committed <= allocated.
C1_SpentPlusCommittedWithinAllocated ==
    \A l \in DOMAIN budget_lines : Sum(budget_lines[l]) <= budget_lines[l].allocated

ExpendituresOf(l) == {i \in DOMAIN expenditures : expenditures[i].budget_line_id = l}

\* C2: with callers interleaving, the expenditures and commitments that get
\* through never overdraw a line (stated for the lines whose allocation is
\* not negative): spent + committed stays within allocated, and when every
\* expenditure recorded on a line has the same positive amount a, with as
\* many of them as there are callers exceeding the allocation, fewer
\* expenditures than callers were recorded on it.
C2_NoOverdrawUnderInterleaving ==
    \A l \in DOMAIN budget_lines :
        budget_lines[l].allocated >= 0 =>
            /\ Sum(budget_lines[l]) <= budget_lines[l].allocated
            /\ \A a \in 1..MaxAmount :
                  ( /\ budget_lines[l].committed = 0
                    /\ \A i \in ExpendituresOf(l) : expenditures[i].amount = a
                    /\ Cardinality(Procs) * a > budget_lines[l].allocated )
                  => Cardinality(ExpendituresOf(l)) < Cardinality(Procs)

\* C3: record_expenditure and commit_funds on an existing line with an amount
\* above allocated - spent - committed never return normally, and a call that
\* fails leaves the lines and the expenditures as they were.
C3_OverAvailableFails ==
    [][/\ ret' # "ok" => budget_lines' = budget_lines /\ expenditures' = expenditures
       /\ ret' = "ok" =>
             \A l \in DOMAIN budget_lines, a \in Amounts :
                 a > budget_lines[l].allocated - budget_lines[l].spent
                         - budget_lines[l].committed =>
                     /\ \A r \in Receipts : ~record_expenditure(l, a, r)
                     /\ ~commit_funds(l, a)]_vars

\* a call was refused on the only line, which has funds committed and nothing
\* spent: the amount was within the allocation but above what is available
C3_Witness ==
    /\ ret = "InsufficientFunds"
    /\ Len(budget_lines) = 1
    /\ budget_lines[1].allocated = MaxAmount
    /\ budget_lines[1].spent = 0
    /\ budget_lines[1].committed = 1
    /\ expenditures = <<>>

Forward == {<<DRAFT, APPROVED>>, <<APPROVED, ACTIVE>>, <<ACTIVE, CLOSED>>}

C5_AddLineOnlyDraftOrApproved ==
    [][\A b \in DOMAIN budgets, a \in Allocations : add_budget_line(b, a) =>
          IF budgets[b].status \in {ACTIVE, CLOSED}
          THEN ret' = "InvalidState" /\ budget_lines' = budget_lines
          ELSE /\ budgets[b].status \in {DRAFT, APPROVED}
               /\ ret' = "ok"
               /\ Len(budget_lines') = Len(budget_lines) + 1
               /\ SubSeq(budget_lines', 1, Len(budget_lines)) = budget_lines
               /\ budget_lines'[Len(budget_lines')] =
                     [budget_id |-> b, allocated |-> a, spent |-> 0, committed |-> 0]]_vars

\* the only budget got one line before it was activated, and a call on it was
\* refused now that it is active
C5_Witness ==
    /\ ret = "InvalidState"
    /\ Len(budgets) = 1
    /\ budgets[1].status = ACTIVE
    /\ Len(budget_lines) = 1
    /\ budget_lines[1] = NewLine(1, MaxAmount)

C7_CreateRejectsNegativeTotal ==
    /\ \A b \in DOMAIN budgets : budgets[b].total_amount >= 0
    /\ ( /\ ret = "ok"
          /\ audit_log # <<>>
          /\ audit_log[Len(audit_log)].action = "CREATE_BUDGET" ) =>
             /\ budgets[Len(budgets)].status = DRAFT
             /\ budgets[Len(budgets)].approved_by = NULL

\* C8: no expenditure with amount <= 0 is ever stored.
C8_StoredExpendituresPositive ==
    \A i \in DOMAIN expenditures : expenditures[i].amount > 0

\* C9: every budget line has spent >= 0 and committed >= 0.
C9_AccumulatorsNonNegative ==
    \A l \in DOMAIN budget_lines :
        budget_lines[l].spent >= 0 /\ budget_lines[l].committed >= 0

Logged(budget_id, action) ==
    Cardinality({i \in DOMAIN audit_log : audit_log[i] = LogEntry(budget_id, action)})

LinesOf(b) == {l \in DOMAIN budget_lines : budget_lines[l].budget_id = b}

ExpendituresUnder(b) ==
    {i \in DOMAIN expenditures : expenditures[i].budget_line_id \in LinesOf(b)}

\* C10: no state, the ones inside a handler included, holds an entity change
\* without its audit entry: every budget has its CREATE_BUDGET entry, every
\* line its ADD_LINE entry, every expenditure its RECORD_EXPENDITURE entry,
\* every status reached its APPROVE_BUDGET, ACTIVATE_BUDGET or CLOSE_BUDGET
\* entry, and every line with funds committed a COMMIT_FUNDS entry.
C10_NoChangeWithoutAuditEntry ==
    \A b \in DOMAIN budgets :
        /\ Logged(b, "CREATE_BUDGET") = 1
        /\ Logged(b, "ADD_LINE") = Cardinality(LinesOf(b))
        /\ Logged(b, "RECORD_EXPENDITURE") = Cardinality(ExpendituresUnder(b))
        /\ budgets[b].status # DRAFT => Logged(b, "APPROVE_BUDGET") = 1
        /\ budgets[b].status \in {ACTIVE, CLOSED} => Logged(b, "ACTIVATE_BUDGET") = 1
        /\ budgets[b].status = CLOSED => Logged(b, "CLOSE_BUDGET") = 1
        /\ \A l \in LinesOf(b) :
              budget_lines[l].committed # 0 => Logged(b, "COMMIT_FUNDS") >= 1

\* C11: once a successful approve_budget has set a budget's approver (the same
\* UPDATE sets approved_at), no later step changes it, however the callers'
\* statements interleave: of two approve_budget calls racing on one draft
\* budget with different approver names, at most one leaves its name.
C11_ApproverSetOnce ==
    [][\A b \in DOMAIN budgets :
          budgets[b].approved_by # NULL => budgets'[b].approved_by = budgets[b].approved_by]_vars

\* C12: a record_expenditure of amount a that returns normally raises the
\* line's spent by exactly a and leaves its committed and allocated as they
\* were; a commit_funds of a that returns normally raises committed by exactly
\* a, leaves spent and allocated as they were and stores no expenditure.
C12_FundsFrame ==
    [][ret' = "ok" =>
          \A l \in DOMAIN budget_lines, a \in Amounts :
              /\ \A r \in Receipts : record_expenditure(l, a, r) =>
                    /\ budget_lines'[l].spent = budget_lines[l].spent + a
                    /\ budget_lines'[l].committed = budget_lines[l].committed
                    /\ budget_lines'[l].allocated = budget_lines[l].allocated
              /\ commit_funds(l, a) =>
                    /\ budget_lines'[l].committed = budget_lines[l].committed + a
                    /\ budget_lines'[l].spent = budget_lines[l].spent
                    /\ budget_lines'[l].allocated = budget_lines[l].allocated
                    /\ expenditures' = expenditures]_vars

C12_Witness ==
    /\ ret = "ok"
    /\ Len(budget_lines) = 1
    /\ budget_lines[1] = [budget_id |-> 1, allocated |-> MaxAmount, spent |-> 1, committed |-> 1]
    /\ Len(expenditures) = 1
    /\ audit_log[Len(audit_log)] = LogEntry(1, "RECORD_EXPENDITURE")

\* C13: record_expenditure and commit_funds do not look at the budget's
\* status: on a line of a budget in any status, draft to closed, a call
\* returns normally exactly when its amount is at most the line's
\* allocated - spent - committed.
C13_FundsNotGatedOnStatus ==
    [][\A l \in DOMAIN budget_lines, a \in Amounts :
          LET fits == a <= budget_lines[l].allocated - budget_lines[l].spent
                               - budget_lines[l].committed
          IN  /\ \A r \in Receipts : record_expenditure(l, a, r) => (ret' = "ok" <=> fits)
              /\ commit_funds(l, a) => (ret' = "ok" <=> fits)]_vars

C13_Witness ==
    /\ ret = "ok"
    /\ budgets[1].status = CLOSED
    /\ Len(expenditures) = 1
    /\ budget_lines[expenditures[1].budget_line_id].budget_id = 1
    /\ audit_log[Len(audit_log)] = LogEntry(1, "RECORD_EXPENDITURE")

RECURSIVE Total(_, _)
\* the sum of f over the set S
Total(f, S) ==
    IF S = {} THEN 0
    ELSE LET x == CHOOSE x \in S : TRUE
         IN  f[x] + Total(f, S \ {x})

\* C14: the dict get_variance returns for a budget has total_allocated,
\* total_spent and total_committed equal to the sums of those columns over
\* exactly the lines of that budget (lines of other budgets are left out),
\* total_available equal to the sum of the lines' allocated - spent -
\* committed, and unallocated = total_amount - total_allocated; a budget of 20
\* with one untouched line of 10 gives total_allocated 10, unallocated 10 and
\* overall utilization 0.
C14_VarianceTotals ==
    report.kind = "variance" =>
        LET b == report.budget_id
            mine == LinesOf(b)
        IN  /\ report.total_allocated = Total([l \in mine |-> budget_lines[l].allocated], mine)
            /\ report.total_spent = Total([l \in mine |-> budget_lines[l].spent], mine)
            /\ report.total_committed = Total([l \in mine |-> budget_lines[l].committed], mine)
            /\ report.total_available =
                  Total([l \in mine |-> budget_lines[l].allocated - budget_lines[l].spent
                                            - budget_lines[l].committed], mine)
            /\ report.unallocated = budgets[b].total_amount - report.total_allocated
            /\ (budgets[b].total_amount = 20 /\ \E l \in mine :
                    mine = {l} /\ budget_lines[l] = NewLine(b, 10)) =>
                  /\ report.total_allocated = 10
                  /\ report.unallocated = 10
                  /\ report.overall_utilization_pct = 0

C14_Witness ==
    /\ report.kind = "variance"
    /\ report.budget_id = 1
    /\ Len(budgets) = 2
    /\ Len(budget_lines) = 2
    /\ budget_lines[1].budget_id = 1
    /\ budget_lines[2] = [budget_id |-> 2, allocated |-> 10, spent |-> 8, committed |-> 0]
    /\ report.total_allocated = 9
    /\ report.total_spent = 1

\* how many entries of the list notes come from this check and name this line
Count(notes, kind, line_id) ==
    Cardinality({i \in DOMAIN notes : notes[i].kind = kind /\ notes[i].line_id = line_id})

\* C15: compliance_check reports compliant = true exactly when the budget's
\* lines allocate at most its total_amount and no line of it has available
\* < 0; its issues hold one over-allocation entry when the lines allocate more
\* than total_amount (none otherwise) and one over-spend entry for each line
\* with available < 0 (none for any other line).  add_budget_line accepts
\* every allocation on a draft or approved budget, also one that takes the
\* lines past total_amount, and the report then shows the over-allocation.
C15_ComplianceIssues ==
    /\ [](report.kind = "compliance" =>
             LET b == report.budget_id
                 mine == LinesOf(b)
                 allocated == Total([l \in mine |-> budget_lines[l].allocated], mine)
                 overspent == {l \in mine : budget_lines[l].allocated - budget_lines[l].spent
                                               - budget_lines[l].committed < 0}
             IN  /\ report.compliant <=>
                       (allocated <= budgets[b].total_amount /\ overspent = {})
                 /\ Count(report.issues, "OVER-ALLOCATED", 0) =
                       (IF allocated > budgets[b].total_amount THEN 1 ELSE 0)
                 /\ \A l \in DOMAIN budget_lines :
                       Count(report.issues, "OVER-SPENT", l) =
                           (IF l \in overspent THEN 1 ELSE 0)
                 /\ Len(report.issues) = Cardinality(overspent)
                       + (IF allocated > budgets[b].total_amount THEN 1 ELSE 0))
    /\ [][\A b \in DOMAIN budgets, a \in Allocations :
             (add_budget_line(b, a) /\ budgets[b].status \in {DRAFT, APPROVED}) =>
                 /\ ret' = "ok"
                 /\ budget_lines' = Append(budget_lines, NewLine(b, a))]_vars

C15_Witness ==
    /\ report.kind = "compliance"
    /\ ~report.compliant
    /\ report.issues = <<Note("OVER-ALLOCATED", 0, MaxAmount)>>
    /\ budgets[1].total_amount = MaxAmount
    /\ budget_lines = <<NewLine(1, MaxAmount), NewLine(1, MaxAmount)>>
    /\ audit_log[Len(audit_log)] = LogEntry(1, "ADD_LINE")

\* C16: the warnings of compliance_check hold one high-utilization entry for
\* every line of the budget whose spent is more than 90 percent of its
\* allocated, lines with available < 0 included, and none for any other line.
C16_HighUtilizationWarnings ==
    report.kind = "compliance" =>
        \A l \in DOMAIN budget_lines :
            Count(report.warnings, "HIGH UTILIZATION", l) =
                (IF /\ l \in LinesOf(report.budget_id)
                    /\ budget_lines[l].allocated > 0
                    /\ budget_lines[l].spent * 100 > HighPct * budget_lines[l].allocated
                 THEN 1 ELSE 0)

\* the expenditures of budget b that carry no receipt reference
Unreceipted(b) == {e \in ExpendituresUnder(b) : expenditures[e].receipt_ref = NULL}

\* C17: the warnings of compliance_check hold exactly one missing-receipt
\* entry when at least one expenditure on a line of that budget has no receipt
\* reference, and the count it quotes is the number of such expenditures of
\* that budget alone; they hold none when every expenditure of the budget has
\* a receipt reference.
C17_MissingReceiptWarning ==
    report.kind = "compliance" =>
        LET n == Cardinality(Unreceipted(report.budget_id))
            found == {i \in DOMAIN report.warnings : report.warnings[i].kind = "MISSING RECEIPTS"}
        IN  /\ Cardinality(found) = (IF n > 0 THEN 1 ELSE 0)
            /\ \A i \in found : report.warnings[i].amount = n

C17_Witness ==
    /\ report.kind = "compliance"
    /\ report.budget_id = 1
    /\ Len(expenditures) = 2
    /\ expenditures[1].receipt_ref = NULL
    /\ expenditures[2].receipt_ref = NULL
    /\ Cardinality(ExpendituresUnder(1)) = 1
    /\ Cardinality(ExpendituresUnder(2)) = 1
    /\ report.warnings = <<Note("MISSING RECEIPTS", 0, 1)>>

\* C18: in the dict get_variance returns, a line is tagged "over_budget" when
\* its available is below 0, otherwise "warning" when its spent is more than
\* 80 percent of its allocated, otherwise "ok"; the utilization it reports is
\* spent / allocated x 100 to the nearest hundredth, and 0 for a line with
\* allocated 0 (or less); a line with 300,000 allocated and 50,000 spent is
\* "ok".
C18_LineTags ==
    /\ report.kind = "variance" =>
          /\ Len(report.lines) = Cardinality(LinesOf(report.budget_id))
          /\ \A i \in DOMAIN report.lines :
                LET l == report.lines[i].line_id
                    ln == budget_lines[l]
                IN  /\ l \in LinesOf(report.budget_id)
                    /\ report.lines[i].status =
                          (IF ln.allocated - ln.spent - ln.committed < 0 THEN "over_budget"
                           ELSE IF ln.allocated > 0 /\ ln.spent * 100 > WarnPct * ln.allocated
                           THEN "warning"
                           ELSE "ok")
                    /\ ln.allocated <= 0 => report.lines[i].utilization_pct = 0
                    /\ ln.allocated > 0 =>
                          2 * Abs(report.lines[i].utilization_pct * ln.allocated
                                      - ln.spent * 10000) <= ln.allocated
    /\ LineStatus(300000 - 50000 - 0, UtilizationPct(50000, 300000)) = "ok"

C18_Witness ==
    /\ report.kind = "variance"
    /\ Len(report.lines) = 2
    /\ report.lines[1].status = "warning"
    /\ report.lines[1].utilization_pct = 8889
    /\ report.lines[2].status = "over_budget"
    /\ report.lines[2].utilization_pct = 0

\* what a call with a missing id must do
NotFound == ret' = "NotFound" /\ UNCHANGED db

\* C19: every operation called with a budget id or a line id that is in no row
\* (add_budget_line, approve_budget, activate_budget, close_budget,
\* get_variance, compliance_check on a missing budget; record_expenditure,
\* commit_funds on a missing line) fails with the not-found error and leaves
\* budgets, lines, expenditures and the audit log as they were.
C19_MissingIdFails ==
    [][LET b == Len(budgets) + 1
           l == Len(budget_lines) + 1
       IN  /\ \A a \in Allocations : add_budget_line(b, a) => NotFound
           /\ \A who \in Approvers : approve_budget(b, who) => NotFound
           /\ activate_budget(b) => NotFound
           /\ close_budget(b) => NotFound
           /\ get_variance(b) => NotFound
           /\ compliance_check(b) => NotFound
           /\ \A a \in Amounts, r \in Receipts : record_expenditure(l, a, r) => NotFound
           /\ \A a \in Amounts : commit_funds(l, a) => NotFound]_vars

C19_Witness ==
    /\ ret = "NotFound"
    /\ Len(budgets) = 1
    /\ budgets[1].status = ACTIVE
    /\ Len(budget_lines) = 1
    /\ budget_lines[1].committed = 1
    /\ expenditures = <<>>
    /\ audit_log = History

\* C20: however add_budget_line interleaves with activate_budget and
\* close_budget on the same budget, the budget is draft or approved at the
\* moment the line is written: no line is inserted into an active or closed
\* budget.
C20_NoLineIntoActiveOrClosed ==
    [][\A p \in Procs :
          add_budget_line_write(p) => budgets[frame[p].id].status \in {DRAFT, APPROVED}]_vars

\* C22: in every state, however the callers' statements interleave, each
\* line's spent is the sum of the amounts of the expenditure records that
\* reference the line, and no step changes the allocated of a line that exists.
C22_SpentIsSumOfExpenditures ==
    /\ [](\A l \in DOMAIN budget_lines :
             budget_lines[l].spent =
                 Total([e \in ExpendituresOf(l) |-> expenditures[e].amount], ExpendituresOf(l)))
    /\ [][\A l \in DOMAIN budget_lines :
             budget_lines'[l].allocated = budget_lines[l].allocated]_vars

C22_Witness ==
    /\ Len(budget_lines) = 1
    /\ budget_lines[1].allocated = MaxAmount
    /\ budget_lines[1].spent = MaxAmount + 1
    /\ Cardinality(ExpendituresOf(1)) = 2
    /\ \E p \in Procs : pc[p] = "log" /\ frame[p].op = "record_expenditure"

\* the positions in the audit log of the entries of budget b with this action
Entries(b, action) == {i \in DOMAIN audit_log : audit_log[i] = LogEntry(b, action)}

\* every entry of budget b with action first comes before every one with action next
Before(b, first, next) == \A i \in Entries(b, first), j \in Entries(b, next) : i < j

\* C23: for every budget the audit log, read in append order, holds its life
\* cycle entries in the order CREATE_BUDGET, APPROVE_BUDGET, ACTIVATE_BUDGET,
\* CLOSE_BUDGET, each at most once, and no ADD_LINE entry of the budget after
\* its ACTIVATE_BUDGET entry, however the callers' statements interleave.
C23_AuditLogInLifecycleOrder ==
    \A b \in DOMAIN budgets :
        /\ \A action \in {"CREATE_BUDGET", "APPROVE_BUDGET", "ACTIVATE_BUDGET", "CLOSE_BUDGET"} :
              Cardinality(Entries(b, action)) <= 1
        /\ Before(b, "CREATE_BUDGET", "APPROVE_BUDGET")
        /\ Before(b, "APPROVE_BUDGET", "ACTIVATE_BUDGET")
        /\ Before(b, "ACTIVATE_BUDGET", "CLOSE_BUDGET")
        /\ Before(b, "ADD_LINE", "ACTIVATE_BUDGET")

\* what the expenditures 1..k had charged to line l: the table only grows,
\* so every store state a call can have seen holds a prefix of it
SpentUpTo(l, k) ==
    LET upto == {e \in ExpendituresOf(l) : e <= k}
    IN  Total([e \in upto |-> expenditures[e].amount], upto)

UnreceiptedUpTo(b, k) == Cardinality({e \in Unreceipted(b) : e <= k})

\* the spent a report was computed from for line l (a line the report does
\* not list was not there yet, with nothing spent)
ReportedSpent(lines, l) ==
    IF \E i \in DOMAIN lines : lines[i].line_id = l
    THEN lines[CHOOSE i \in DOMAIN lines : lines[i].line_id = l].spent
    ELSE 0

\* C21: with other callers' mutations running during the call, what
\* compliance_check reports still comes from one store state: there is a
\* moment of the expenditures table (its first k rows) at which every line of
\* the budget had exactly the spent the report was computed from and the
\* budget had exactly the number of expenditures without receipt the report
\* counts, so that the count never includes an expenditure whose amount is
\* absent from the reported spent.
C21_ReportFromOneStoreState ==
    [][\A p \in Procs :
          compliance_check_count(p) =>
              \E k \in 0..Len(expenditures) :
                  /\ \A l \in LinesOf(frame[p].id) :
                        ReportedSpent(frame[p].variance.lines, l) = SpentUpTo(l, k)
                  /\ ExpsWithoutReceipt(frame[p].id) = UnreceiptedUpTo(frame[p].id, k)]_vars
====
